---- MODULE Spec2Model ----
(***************************************************************************)
(* Client-side authentication session manager of deed-admin:               *)
(*   auth/token.js            TokenStore, refreshOnce, authFetch           *)
(*   auth/session-timeout.js  showModal, session-expired / forbidden       *)
(*   auth/activity-refresh.js heartbeat, navigation / submit interception  *)
(*   admin/confirm.js         the confirm modal the handlers are shown in  *)
(* JavaScript runs one task at a time: every action below is the code that *)
(* runs between two suspension points (await of a network call, a timer,   *)
(* a user event).  Continuations of an awaited promise run as microtasks,  *)
(* so they belong to the action that settles the promise.                  *)
(***************************************************************************)
EXTENDS Integers, Sequences, FiniteSets, TLC

\* ------------------------------------------------------------------ bounds
NumCalls == 2        \* authFetch invocations in one page life
NumTasks == 1        \* ActivityMonitor handler runs (heartbeat / click / submit)
NumNavTasks == 2     \* handler runs where the ActivityMonitor is taken alone
MaxAdvances == 1     \* clock steps after page load
MaxClicks == 1       \* user clicks on the modal's buttons
MaxOvershoot == 1    \* ms past a whole clock tick, and past the idle ceiling
T0 == 1000000        \* Date.now() at page load, in ms

\* ------------------------------------------------------- program constants
SKEW_SECONDS == 30
MAX_IDLE_MS == 120000
MIN_REFRESH_GAP_MS == 90000
TOKEN_LIFETIME_S == 180

Calls == 1..NumCalls

VARIABLES
  hasSessionTimeout,    \* window.SessionTimeout is loaded
  hasConfirmModal,      \* window.openConfirmModal is loaded
  window__authRefreshing, \* the cross-script flag token.js reads
  token,                \* sessionStorage["access_token"]
  refreshInFlight,      \* token.js: the pending renewal promise
  handlingAuthFailure,  \* token.js: escalation flag
  modalOpen,            \* session-timeout.js: modal guard
  modal,                \* confirm.js: what the modal shows, its handlers
  logouts,              \* POST /auth/logout calls in flight, by continuation
  redirects,            \* assignments to window.location.href / form.submit()
  clicks,               \* the user's clicks on the modal's buttons, in order
  now,                  \* Date.now()
  lastActivityAt,       \* activity-refresh.js
  lastRefreshAttemptAt, \* activity-refresh.js
  refreshPromise,       \* activity-refresh.js: the pending renewal promise
  activityTimer,        \* activity-refresh.js: debounce timer armed
  calls,                \* authFetch invocations
  tasks,                \* ActivityMonitor handler runs
  lastStoreOp           \* the last call of window.Auth's TokenStore by a page script

vars == <<hasSessionTimeout, hasConfirmModal, window__authRefreshing, token,
          refreshInFlight, handlingAuthFailure, modalOpen, modal, logouts,
          redirects, clicks, now, lastActivityAt, lastRefreshAttemptAt,
          refreshPromise, activityTimer, calls, tasks, lastStoreOp>>

\* the slots of the handler runs
Tasks == DOMAIN tasks

\* ---------------------------------------------------------------- tokens
\* A stored credential: the string's dot-separated segments, what the middle
\* segment decodes to, and the exp field of the decoded object.
NoToken == [present |-> FALSE, segs |-> 0, payload |-> "none", expnum |-> FALSE, exp |-> 0]

Jwt(e) == [present |-> TRUE, segs |-> 3, payload |-> "obj", expnum |-> TRUE, exp |-> e]

NoExp == [null |-> TRUE, v |-> 0]

getJwtExpSeconds(t) ==
  IF t.segs < 2 THEN NoExp
  ELSE IF t.payload # "obj" THEN NoExp
  ELSE IF t.expnum THEN [null |-> FALSE, v |-> t.exp] ELSE NoExp

secondsUntilExpiry(t, clock) ==
  LET e == getJwtExpSeconds(t) IN
    IF e.null \/ e.v = 0 THEN NoExp
    ELSE [null |-> FALSE, v |-> e.v - (clock \div 1000)]

\* mutant: a credential whose expiry cannot be read counts as not due
needsRefreshSoonAt_NullNotDue(t, clock) ==
  IF ~t.present THEN FALSE
  ELSE LET left == secondsUntilExpiry(t, clock) IN
         IF left.null THEN FALSE ELSE left.v <= SKEW_SECONDS

\* mutant: the comparison with the skew window made strict
needsRefreshSoonAt_StrictSkew(t, clock) ==
  IF ~t.present THEN FALSE
  ELSE LET left == secondsUntilExpiry(t, clock) IN
         IF left.null THEN TRUE ELSE left.v < SKEW_SECONDS

needsRefreshSoonAt(t, clock) ==
  IF ~t.present THEN FALSE
  ELSE LET left == secondsUntilExpiry(t, clock) IN
         IF left.null THEN TRUE ELSE left.v <= SKEW_SECONDS

needsRefreshSoon == needsRefreshSoonAt(token, now)

\* mutant: the idle test dropped, the user always counts as active
isIdleTooLong_Never == FALSE

\* mutant: the comparison made non-strict
isIdleTooLong_NonStrict == now - lastActivityAt >= MAX_IDLE_MS

isIdleTooLong == now - lastActivityAt > MAX_IDLE_MS

\* mutant: the flag test inverted
isProactiveRefreshInProgress_Inverted == ~window__authRefreshing

isProactiveRefreshInProgress == window__authRefreshing

\* setAccessToken stores only a truthy token
setAccessToken(store, t) == IF t.present THEN t ELSE store

\* ------------------------------------------------- TokenStore, token.js
\* window.Auth.setAccessToken / getAccessToken / clearAccessToken as a page
\* script calls them; lastStoreOp keeps the call, its argument and its result.
\* NoToken as an argument is the empty string, as a result null.
NoStoreOp == [op |-> "none", arg |-> NoToken, ret |-> NoToken]

StoreSet(t) ==
  /\ token' = setAccessToken(token, t)
  /\ lastStoreOp' = [op |-> "set", arg |-> t, ret |-> NoToken]
  /\ UNCHANGED <<hasSessionTimeout, hasConfirmModal, window__authRefreshing,
                 refreshInFlight, handlingAuthFailure, modalOpen, modal, logouts,
                 redirects, clicks, now, lastActivityAt, lastRefreshAttemptAt,
                 refreshPromise, activityTimer, calls, tasks>>

StoreGet ==
  /\ lastStoreOp' = [op |-> "get", arg |-> NoToken, ret |-> token]
  /\ UNCHANGED <<hasSessionTimeout, hasConfirmModal, window__authRefreshing, token,
                 refreshInFlight, handlingAuthFailure, modalOpen, modal, logouts,
                 redirects, clicks, now, lastActivityAt, lastRefreshAttemptAt,
                 refreshPromise, activityTimer, calls, tasks>>

StoreClear ==
  /\ token' = NoToken
  /\ lastStoreOp' = [op |-> "clear", arg |-> NoToken, ret |-> NoToken]
  /\ UNCHANGED <<hasSessionTimeout, hasConfirmModal, window__authRefreshing,
                 refreshInFlight, handlingAuthFailure, modalOpen, modal, logouts,
                 redirects, clicks, now, lastActivityAt, lastRefreshAttemptAt,
                 refreshPromise, activityTimer, calls, tasks>>

\* ------------------------------------------------------------------- urls
\* A request target: same-origin or not, and the path as its segments; the
\* last segment keeps its extension apart.
Url(same, segsq, extn) == [sameOrigin |-> same, path |-> segsq, ext |-> extn]

ApiUrl == Url(TRUE, <<"api", "menu">>, "")
StaticUrl == Url(TRUE, <<"static", "app">>, "js")
LoginUrl == Url(TRUE, <<"auth", "login">>, "")
CrossUrl == Url(FALSE, <<"api", "menu">>, "")

AuthEndpoints == {"login", "register", "refresh", "logout"}

\* mutant: the auth-endpoint test dropped
shouldAttachAuth_AuthToo(u) == u.sameOrigin

\* mutant: the same-origin test dropped
shouldAttachAuth_AnyOrigin(u) ==
  ~(Len(u.path) = 2 /\ u.path[1] = "auth" /\ u.path[2] \in AuthEndpoints /\ u.ext = "")

shouldAttachAuth(u) ==
  /\ u.sameOrigin
  /\ ~(Len(u.path) = 2 /\ u.path[1] = "auth" /\ u.path[2] \in AuthEndpoints /\ u.ext = "")

SkipExt == {"css", "js", "png", "jpg", "jpeg", "webp", "avif", "ico"}

\* mutant: the /static/ prefix test dropped
isSkippablePath_NoStatic(u) ==
  \/ (Len(u.path) >= 1 /\ u.path[1] = "favicon")
  \/ u.ext \in SkipExt

isSkippablePath(u) ==
  \/ (Len(u.path) >= 2 /\ u.path[1] = "static")
  \/ (Len(u.path) >= 1 /\ u.path[1] = "favicon")
  \/ u.ext \in SkipExt

\* ------------------------------------------------- the escalation handlers
\* The globals the handlers read and write, as one record, so that the
\* handlers compose in the order the code calls them.
World ==
  [token |-> token, haf |-> handlingAuthFailure, mo |-> modalOpen,
   modal |-> modal, logouts |-> logouts, redirects |-> redirects]

NoModal == [kind |-> "none", detail |-> ""]

clearAccessToken(w) == [w EXCEPT !.token = NoToken]

safeClearClientState(w) == clearAccessToken(w)

\* fetch("/auth/logout") is sent; k names the code that awaits it
startLogout(w, k) == [w EXCEPT !.logouts[k] = @ + 1]

setLocation(w, to, by) ==
  [w EXCEPT !.redirects = Append(@, [to |-> to, by |-> by,
                                     tokenEmpty |-> ~w.token.present])]

hideModal(w) == [w EXCEPT !.modal = NoModal]

\* mutant: without the confirm modal only an expired session is cleared and
\* logged out, a forbidden one is dropped
showModal_ForbiddenNoFallback(w, kind, detail) ==
  IF w.mo THEN w
  ELSE LET w1 == [w EXCEPT !.mo = TRUE] IN
    IF ~hasConfirmModal
      THEN (IF kind = "forbidden" THEN w1
            ELSE startLogout(safeClearClientState(w1), "fbModal"))
      ELSE [w1 EXCEPT !.modal = [kind |-> kind, detail |-> detail]]

showModal(w, kind, detail) ==
  IF w.mo THEN w
  ELSE LET w1 == [w EXCEPT !.mo = TRUE] IN
    IF ~hasConfirmModal
      THEN startLogout(safeClearClientState(w1), "fbModal")
      ELSE [w1 EXCEPT !.modal = [kind |-> kind, detail |-> detail]]

showSessionTimeoutModal(w) == showModal(w, "expired", "")

showForbiddenModal(w, detail) == showModal(w, "forbidden", detail)

showSessionTimeoutModalOnce(w) ==
  IF w.haf THEN w
  ELSE LET w1 == [w EXCEPT !.haf = TRUE] IN
    IF hasSessionTimeout THEN showSessionTimeoutModal(w1)
    ELSE startLogout(clearAccessToken(w1), "fbToken")

showForbiddenModalOnce(w, detail) ==
  IF w.haf THEN w
  ELSE LET w1 == [w EXCEPT !.haf = TRUE] IN
    IF hasSessionTimeout THEN showForbiddenModal(w1, detail)
    ELSE setLocation(w1, "/", "forbiddenFallback")

\* mutant: a failed renewal is reported to the handler only, nothing is shown
activityEscalate_Silent(w) == w

\* activity-refresh.js, maybeRefreshOrLogout after a failed renewal
activityEscalate(w) ==
  IF hasSessionTimeout THEN showSessionTimeoutModal(w)
  ELSE setLocation(w, "/login", "activity")

\* An escalation surface is up: a decision is shown, or a fallback redirect
\* waits for its logout call.
SurfaceActive(w) ==
  \/ w.modal.kind # "none"
  \/ w.logouts["fbModal"] > 0
  \/ w.logouts["fbToken"] > 0

\* What a trigger did: opened a decision, started a fallback, or redirected.
Opened(w, w2) ==
  \/ w2.modal # w.modal
  \/ w2.logouts # w.logouts
  \/ w2.redirects # w.redirects

SetWorld(w) ==
  /\ token' = w.token
  /\ handlingAuthFailure' = w.haf
  /\ modalOpen' = w.mo
  /\ modal' = w.modal
  /\ logouts' = w.logouts
  /\ redirects' = w.redirects

\* ------------------------------------------------------ renewal, token.js
\* refreshInFlight: st "none" is null; gen counts the calls doRefresh has
\* sent to /auth/refresh.  A settled promise stays until the setTimeout(0)
\* callback runs.
NoPromise(g) == [st |-> "none", kind |-> "none", tok |-> NoToken, gen |-> g]

RenewalKinds == {"okToken", "okNoToken", "non2xx", "neterr"}

\* the credential the server mints at time clock
ServerToken(clock) == Jwt((clock \div 1000) + TOKEN_LIFETIME_S)

\* mutant: the in-flight test dropped, every caller starts doRefresh
refreshOnce_AlwaysStarts(p) ==
  [st |-> "pending", kind |-> "none", tok |-> NoToken, gen |-> p.gen + 1]

\* mutant: the marker is never reset, only the first caller starts doRefresh
refreshOnce_NeverRestarts(p) ==
  IF p.st = "none" /\ p.gen = 0
    THEN [st |-> "pending", kind |-> "none", tok |-> NoToken, gen |-> p.gen + 1]
    ELSE p

\* refreshOnce: start doRefresh only when no promise is kept
refreshOnce(p) ==
  IF p.st = "none"
    THEN [st |-> "pending", kind |-> "none", tok |-> NoToken, gen |-> p.gen + 1]
    ELSE p

\* doRefresh after the response: resolved with the credential, or rejected
doRefreshSettle(p, kind, clock) ==
  IF kind = "okToken"
    THEN [p EXCEPT !.st = "ok", !.kind = kind, !.tok = ServerToken(clock)]
    ELSE [p EXCEPT !.st = "fail", !.kind = kind]

\* --------------------------------------------------------------- authFetch
Statuses == {"200", "401", "403"}

NoBody == [json |-> FALSE, error_details |-> "", detail |-> "", message |-> ""]

Body(ed, d, m) == [json |-> TRUE, error_details |-> ed, detail |-> d, message |-> m]

\* body?.error_details || body?.detail || body?.message || "Forbidden"
Detail(b) ==
  IF ~b.json THEN "Forbidden"
  ELSE IF b.error_details # "" THEN b.error_details
  ELSE IF b.detail # "" THEN b.detail
  ELSE IF b.message # "" THEN b.message
  ELSE "Forbidden"

\* mutant: the empty-TokenStore test dropped, a 401 always renews
FirstDecision_NoEmptyCheck(s, u, proactive, stored) ==
  IF s = "403" /\ ~isSkippablePath(u) THEN "forbidden"
  ELSE IF s # "401" \/ ~shouldAttachAuth(u) \/ isSkippablePath(u) THEN "return"
  ELSE IF proactive THEN "return"
  ELSE "refresh"

\* mutant: a 403 is handled like a 401, it renews and retries
FirstDecision_RenewsOn403(s, u, proactive, stored) ==
  IF s \notin {"401", "403"} \/ ~shouldAttachAuth(u) \/ isSkippablePath(u) THEN "return"
  ELSE IF proactive THEN "return"
  ELSE IF ~stored.present THEN "expired"
  ELSE "refresh"

\* lines 204-237: what authFetch does with the first response
FirstDecision(s, u, proactive, stored) ==
  IF s = "403" /\ ~isSkippablePath(u) THEN "forbidden"
  ELSE IF s # "401" \/ ~shouldAttachAuth(u) \/ isSkippablePath(u) THEN "return"
  ELSE IF proactive THEN "return"
  ELSE IF ~stored.present THEN "expired"
  ELSE "refresh"

\* mutant: a 401 on the retry is returned like any other status
RetryDecision_Ignores401(s, u) ==
  IF s = "403" /\ ~isSkippablePath(u) THEN "forbidden"
  ELSE "return"

\* lines 248-262: what authFetch does with the retry's response
RetryDecision(s, u) ==
  IF s = "403" /\ ~isSkippablePath(u) THEN "forbidden"
  ELSE IF s = "401" /\ ~isSkippablePath(u) THEN "expired"
  ELSE "return"

\* One authFetch invocation: where it is suspended, and what it has seen and
\* done so far (auth1, auth2: the attempt carried the Authorization header).
NoCall ==
  [pc |-> "idle", url |-> ApiUrl, st1 |-> "none", st2 |-> "none", body |-> NoBody,
   sent |-> 0, auth1 |-> FALSE, auth2 |-> FALSE,
   nref |-> 0, pendingAtInvoke |-> FALSE, startedNet |-> FALSE, gen |-> 0,
   rout |-> "none", rkind |-> "none", rtok |-> NoToken,
   esc |-> "none", surfaceBefore |-> FALSE, opened |-> FALSE, ret |-> "none"]

\* the call invokes expired(): what it found and what it did
CallExpired(cr, w) ==
  LET w2 == showSessionTimeoutModalOnce(w) IN
    [cr EXCEPT !.esc = "expired", !.surfaceBefore = SurfaceActive(w),
               !.opened = Opened(w, w2)]

CallForbidden(cr, w, d) ==
  LET w2 == showForbiddenModalOnce(w, d) IN
    [cr EXCEPT !.esc = "forbidden", !.surfaceBefore = SurfaceActive(w),
               !.opened = Opened(w, w2)]

\* authFetch after `await refreshOnce()` has resolved: the retry is sent
CallRetry(cr, p, store) ==
  [cr EXCEPT !.pc = "retry", !.rout = "ok", !.rkind = p.kind, !.rtok = p.tok,
             !.sent = @ + 1, !.auth2 = store.present]

\* mutant: no catch block, the rejection of refreshOnce() leaves authFetch
CallRefreshFailed_Rejects(cr, p, w) ==
  [cr EXCEPT !.pc = "rejected", !.rout = "fail", !.rkind = p.kind]

\* authFetch after `await refreshOnce()` has rejected: the catch block
CallRefreshFailed(cr, p, w) ==
  [CallExpired(cr, w) EXCEPT !.pc = "done", !.rout = "fail", !.rkind = p.kind,
                             !.ret = "first"]

\* lines 180-202: build the headers, send the first attempt
AuthFetchStart(c, u) ==
  /\ calls[c].pc = "idle"
  /\ \A d \in Calls : d < c => calls[d].pc # "idle"
  /\ calls' = [calls EXCEPT ![c] =
       [@ EXCEPT !.pc = "first", !.url = u, !.sent = 1,
                 !.auth1 = (shouldAttachAuth(u) /\ token.present)]]
  /\ UNCHANGED <<lastStoreOp, hasSessionTimeout, hasConfirmModal, window__authRefreshing, token,
                 refreshInFlight, handlingAuthFailure, modalOpen, modal, logouts,
                 redirects, clicks, now, lastActivityAt, lastRefreshAttemptAt,
                 refreshPromise, activityTimer, tasks>>

\* lines 202-237: the first response arrives; everything up to the next await
AuthFetchFirstResponse(c, s, b) ==
  /\ calls[c].pc = "first"
  /\ LET u == calls[c].url
         w == World
         cr == [calls[c] EXCEPT !.st1 = s]
         dec == FirstDecision(s, u, isProactiveRefreshInProgress, token)
     IN
       IF s = "neterr" THEN
         /\ calls' = [calls EXCEPT ![c] = [cr EXCEPT !.pc = "rejected"]]
         /\ UNCHANGED <<token, refreshInFlight, handlingAuthFailure, modalOpen,
                        modal, logouts, redirects>>
       ELSE IF dec = "forbidden" THEN
         /\ calls' = [calls EXCEPT ![c] = [cr EXCEPT !.pc = "body403", !.body = b]]
         /\ UNCHANGED <<token, refreshInFlight, handlingAuthFailure, modalOpen,
                        modal, logouts, redirects>>
       ELSE IF dec = "return" THEN
         /\ calls' = [calls EXCEPT ![c] = [cr EXCEPT !.pc = "done", !.ret = "first"]]
         /\ UNCHANGED <<token, refreshInFlight, handlingAuthFailure, modalOpen,
                        modal, logouts, redirects>>
       ELSE IF dec = "expired" THEN
         /\ calls' = [calls EXCEPT ![c] =
              [CallExpired(cr, w) EXCEPT !.pc = "done", !.ret = "first"]]
         /\ SetWorld(showSessionTimeoutModalOnce(w))
         /\ UNCHANGED refreshInFlight
       ELSE
         LET p == refreshOnce(refreshInFlight)
             cr1 == [cr EXCEPT !.nref = @ + 1,
                               !.pendingAtInvoke = (refreshInFlight.st = "pending"),
                               !.startedNet = (p.gen # refreshInFlight.gen),
                               !.gen = p.gen]
         IN
           /\ refreshInFlight' = p
           /\ IF p.st = "pending" THEN
                /\ calls' = [calls EXCEPT ![c] = [cr1 EXCEPT !.pc = "refresh"]]
                /\ UNCHANGED <<token, handlingAuthFailure, modalOpen, modal,
                               logouts, redirects>>
              ELSE IF p.st = "ok" THEN
                /\ calls' = [calls EXCEPT ![c] = CallRetry(cr1, p, token)]
                /\ UNCHANGED <<token, handlingAuthFailure, modalOpen, modal,
                               logouts, redirects>>
              ELSE
                /\ calls' = [calls EXCEPT ![c] = CallRefreshFailed(cr1, p, w)]
                /\ SetWorld(showSessionTimeoutModalOnce(w))
  /\ UNCHANGED <<lastStoreOp, hasSessionTimeout, hasConfirmModal, window__authRefreshing,
                 clicks, now, lastActivityAt, lastRefreshAttemptAt,
                 refreshPromise, activityTimer, tasks>>

\* lines 206-209: the 403 body has been read
AuthFetchForbidden(c) ==
  /\ calls[c].pc = "body403"
  /\ LET d == Detail(calls[c].body) IN
       /\ calls' = [calls EXCEPT ![c] =
            [CallForbidden(@, World, d) EXCEPT !.pc = "done", !.ret = "first",
                                               !.body = NoBody]]
       /\ SetWorld(showForbiddenModalOnce(World, d))
  /\ UNCHANGED <<lastStoreOp, hasSessionTimeout, hasConfirmModal, window__authRefreshing,
                 refreshInFlight, clicks, now, lastActivityAt,
                 lastRefreshAttemptAt, refreshPromise, activityTimer, tasks>>

\* The calls suspended in `await refreshOnce()`, in call order, resume when
\* the promise settles: r.cs the calls, r.w the globals after all of them ran.
RECURSIVE ResumeWaiters(_, _, _, _)
ResumeWaiters(c, cs, w, p) ==
  IF c > NumCalls THEN [cs |-> cs, w |-> w]
  ELSE IF cs[c].pc # "refresh" THEN ResumeWaiters(c + 1, cs, w, p)
  ELSE IF p.st = "ok"
    THEN ResumeWaiters(c + 1, [cs EXCEPT ![c] = CallRetry(@, p, w.token)], w, p)
    ELSE ResumeWaiters(c + 1, [cs EXCEPT ![c] = CallRefreshFailed(@, p, w)],
                       showSessionTimeoutModalOnce(w), p)

\* lines 140-174: the response to doRefresh's POST /auth/refresh arrives
RefreshResponse(kind) ==
  /\ refreshInFlight.st = "pending"
  /\ LET p == doRefreshSettle(refreshInFlight, kind, now)
         w == [World EXCEPT !.token = setAccessToken(@, p.tok)]
         r == ResumeWaiters(1, calls, w, p)
     IN
       /\ refreshInFlight' = p
       /\ calls' = r.cs
       /\ SetWorld(r.w)
  /\ UNCHANGED <<lastStoreOp, hasSessionTimeout, hasConfirmModal, window__authRefreshing,
                 clicks, now, lastActivityAt, lastRefreshAttemptAt,
                 refreshPromise, activityTimer, tasks>>

\* line 169: setTimeout(() => (refreshInFlight = null), 0)
ClearRefreshInFlight ==
  /\ refreshInFlight.st \in {"ok", "fail"}
  /\ refreshInFlight' = NoPromise(refreshInFlight.gen)
  /\ UNCHANGED <<lastStoreOp, hasSessionTimeout, hasConfirmModal, window__authRefreshing, token,
                 handlingAuthFailure, modalOpen, modal, logouts, redirects,
                 clicks, now, lastActivityAt, lastRefreshAttemptAt,
                 refreshPromise, activityTimer, calls, tasks>>

\* mutant: the retry's fetch is outside the try block, its rejection leaves
\* authFetch
CallRetryRejected_Rejects(cr, w) == [cr EXCEPT !.pc = "rejected"]

\* lines 248 and 263-267: the retry's fetch rejects inside the try block
CallRetryRejected(cr, w) ==
  [CallExpired(cr, w) EXCEPT !.pc = "done", !.ret = "first"]

\* lines 248-267: the retry's response arrives
AuthFetchRetryResponse(c, s, b) ==
  /\ calls[c].pc = "retry"
  /\ LET cr == [calls[c] EXCEPT !.st2 = s]
         w == World
         dec == RetryDecision(s, cr.url)
     IN
       IF s = "neterr" THEN
         /\ calls' = [calls EXCEPT ![c] = CallRetryRejected(cr, w)]
         /\ SetWorld(showSessionTimeoutModalOnce(w))
       ELSE IF dec = "forbidden" THEN
         /\ calls' = [calls EXCEPT ![c] = [cr EXCEPT !.pc = "rbody403", !.body = b]]
         /\ UNCHANGED <<token, handlingAuthFailure, modalOpen, modal, logouts,
                        redirects>>
       ELSE IF dec = "expired" THEN
         /\ calls' = [calls EXCEPT ![c] =
              [CallExpired(cr, w) EXCEPT !.pc = "done", !.ret = "retry"]]
         /\ SetWorld(showSessionTimeoutModalOnce(w))
       ELSE
         /\ calls' = [calls EXCEPT ![c] = [cr EXCEPT !.pc = "done", !.ret = "retry"]]
         /\ UNCHANGED <<token, handlingAuthFailure, modalOpen, modal, logouts,
                        redirects>>
  /\ UNCHANGED <<lastStoreOp, hasSessionTimeout, hasConfirmModal, window__authRefreshing,
                 refreshInFlight, clicks, now, lastActivityAt,
                 lastRefreshAttemptAt, refreshPromise, activityTimer, tasks>>

\* lines 252-262: the retry's 403 body has been read
AuthFetchRetryForbidden(c) ==
  /\ calls[c].pc = "rbody403"
  /\ LET d == Detail(calls[c].body) IN
       /\ calls' = [calls EXCEPT ![c] =
            [CallForbidden(@, World, d) EXCEPT !.pc = "done", !.ret = "retry",
                                               !.body = NoBody]]
       /\ SetWorld(showForbiddenModalOnce(World, d))
  /\ UNCHANGED <<lastStoreOp, hasSessionTimeout, hasConfirmModal, window__authRefreshing,
                 refreshInFlight, clicks, now, lastActivityAt,
                 lastRefreshAttemptAt, refreshPromise, activityTimer, tasks>>

\* ------------------------------------------- session-timeout.js, confirm.js
LogoutKinds == {"fbToken", "fbModal", "ok", "no"}

\* showForbiddenModal's onOk: close only
forbiddenOnOk(w) == hideModal(w)

\* mutant: the forbidden modal's Home button reuses the expired handler's
\* clearing of the client state
forbiddenOnNo_ClearsSession(w) ==
  setLocation(safeClearClientState(w), "/", "forbiddenNo")

\* showForbiddenModal's onNo: go home
forbiddenOnNo(w) == setLocation(w, "/", "forbiddenNo")

\* confirm.js lines 97-104: the confirm button; showModal's onOk wrapper
ClickOk ==
  /\ modal.kind # "none"
  /\ Len(clicks) < MaxClicks
  /\ clicks' = Append(clicks, [button |-> "ok", kind |-> modal.kind])
  /\ IF modal.kind = "expired"
       THEN SetWorld(startLogout(safeClearClientState(World), "ok"))
       ELSE SetWorld([hideModal(forbiddenOnOk(World)) EXCEPT !.mo = FALSE])
  /\ UNCHANGED <<lastStoreOp, hasSessionTimeout, hasConfirmModal, window__authRefreshing,
                 refreshInFlight, now, lastActivityAt, lastRefreshAttemptAt,
                 refreshPromise, activityTimer, calls, tasks>>

\* confirm.js lines 106-117: the cancel button, or a click outside the box
ClickNo ==
  /\ modal.kind # "none"
  /\ Len(clicks) < MaxClicks
  /\ clicks' = Append(clicks, [button |-> "no", kind |-> modal.kind])
  /\ IF modal.kind = "expired"
       THEN SetWorld(startLogout(safeClearClientState(World), "no"))
       ELSE SetWorld([hideModal(forbiddenOnNo(World)) EXCEPT !.mo = FALSE])
  /\ UNCHANGED <<lastStoreOp, hasSessionTimeout, hasConfirmModal, window__authRefreshing,
                 refreshInFlight, now, lastActivityAt, lastRefreshAttemptAt,
                 refreshPromise, activityTimer, calls, tasks>>

\* POST /auth/logout settles (any outcome): the code awaiting it goes on
LogoutDone(k) ==
  /\ logouts[k] > 0
  /\ LET w == [World EXCEPT !.logouts[k] = @ - 1] IN
       IF k \in {"fbToken", "fbModal"}
         THEN SetWorld(setLocation(w, "/login", k))
         ELSE SetWorld([hideModal(setLocation(w, IF k = "ok" THEN "/login" ELSE "/", k))
                          EXCEPT !.mo = FALSE])
  /\ UNCHANGED <<lastStoreOp, hasSessionTimeout, hasConfirmModal, window__authRefreshing,
                 refreshInFlight, clicks, now, lastActivityAt,
                 lastRefreshAttemptAt, refreshPromise, activityTimer, calls, tasks>>

\* ------------------------------------------------------ activity-refresh.js
TaskKinds == {"heartbeat", "nav", "submit"}

NoTask ==
  [pc |-> "idle", kind |-> "heartbeat", prevented |-> FALSE, joined |-> "none",
   gen |-> 0, rkind |-> "none", ok |-> "none", performed |-> "no",
   esc |-> "none", surfaceBefore |-> FALSE, opened |-> FALSE]

\* refreshAccessTokenOnce: the kept promise, or a new call to /auth/refresh
refreshAccessTokenOnce(p) ==
  IF p.st # "none" THEN p
  ELSE [st |-> "pending", kind |-> "none", tok |-> NoToken, gen |-> p.gen + 1]

\* mutant: the credential of the response is not handed to setAccessToken
activitySettle_DropsToken(p, kind, clock) ==
  IF kind \in {"okToken", "okNoToken"} THEN [p EXCEPT !.st = "true", !.kind = kind]
  ELSE [p EXCEPT !.st = "false", !.kind = kind]

\* the promise's value once the response is in: true or false
activitySettle(p, kind, clock) ==
  IF kind = "okToken" THEN [p EXCEPT !.st = "true", !.kind = kind, !.tok = ServerToken(clock)]
  ELSE IF kind = "okNoToken" THEN [p EXCEPT !.st = "true", !.kind = kind]
  ELSE [p EXCEPT !.st = "false", !.kind = kind]

\* maybeRefreshOrLogout returns before any renewal: throttled, idle, not due
NoRenewalNeeded ==
  \/ now - lastRefreshAttemptAt < MIN_REFRESH_GAP_MS
  \/ isIdleTooLong
  \/ ~needsRefreshSoon

\* after maybeRefreshOrLogout returned ok: the handler's last line
TaskProceed(tr, w) ==
  IF tr.kind = "nav" THEN setLocation(w, "href", "nav")
  ELSE IF tr.kind = "submit" THEN setLocation(w, "action", "submit")
  ELSE w

\* maybeRefreshOrLogout lines 114-124 and the handler's tail, given ok
TaskFinish(tr, p, w) ==
  IF p.st = "true"
    THEN [t |-> [tr EXCEPT !.pc = "done", !.ok = "true", !.rkind = p.kind,
                           !.performed = IF tr.kind = "heartbeat" THEN "no" ELSE "script"],
          w |-> TaskProceed(tr, w)]
    ELSE [t |-> [tr EXCEPT !.pc = "done", !.ok = "false", !.rkind = p.kind,
                           !.esc = "expired", !.surfaceBefore = SurfaceActive(w),
                           !.opened = Opened(w, activityEscalate(w))],
          w |-> activityEscalate(w)]

\* lines 127-130, 155-199 and 103-114: a heartbeat tick, a click on a
\* protected link, a submit of a protected form, up to the first await
TaskStart(t, kind) ==
  /\ tasks[t].pc = "idle"
  /\ \A d \in Tasks : d < t => tasks[d].pc # "idle"
  /\ LET tr == [tasks[t] EXCEPT !.kind = kind] IN
       IF kind = "heartbeat" /\ isIdleTooLong THEN
         /\ tasks' = [tasks EXCEPT ![t] = [tr EXCEPT !.pc = "done"]]
         /\ UNCHANGED <<token, handlingAuthFailure, modalOpen, modal, logouts,
                        redirects, lastRefreshAttemptAt, refreshPromise>>
       ELSE IF kind # "heartbeat" /\ (~needsRefreshSoon \/ isIdleTooLong) THEN
         /\ tasks' = [tasks EXCEPT ![t] = [tr EXCEPT !.pc = "done", !.performed = "default"]]
         /\ UNCHANGED <<token, handlingAuthFailure, modalOpen, modal, logouts,
                        redirects, lastRefreshAttemptAt, refreshPromise>>
       ELSE
         LET tp == [tr EXCEPT !.prevented = (kind # "heartbeat")] IN
         IF NoRenewalNeeded THEN
           /\ tasks' = [tasks EXCEPT ![t] =
                [tp EXCEPT !.pc = "done", !.ok = "true",
                           !.performed = IF kind = "heartbeat" THEN "no" ELSE "script"]]
           /\ SetWorld(TaskProceed(tp, World))
           /\ UNCHANGED <<lastRefreshAttemptAt, refreshPromise>>
         ELSE
           LET p == refreshAccessTokenOnce(refreshPromise)
               tj == [tp EXCEPT !.gen = p.gen,
                                !.joined = IF refreshPromise.st = "none" THEN "started"
                                           ELSE IF refreshPromise.st = "pending" THEN "pending"
                                           ELSE "settled"]
           IN
             /\ lastRefreshAttemptAt' = now
             /\ refreshPromise' = p
             /\ IF p.st = "pending" THEN
                  /\ tasks' = [tasks EXCEPT ![t] = [tj EXCEPT !.pc = "await"]]
                  /\ UNCHANGED <<token, handlingAuthFailure, modalOpen, modal,
                                 logouts, redirects>>
                ELSE
                  /\ tasks' = [tasks EXCEPT ![t] = TaskFinish(tj, p, World).t]
                  /\ SetWorld(TaskFinish(tj, p, World).w)
  /\ UNCHANGED <<lastStoreOp, hasSessionTimeout, hasConfirmModal, window__authRefreshing,
                 refreshInFlight, clicks, now, lastActivityAt, activityTimer, calls>>

\* the handlers suspended in `await refreshAccessTokenOnce()` resume in order
RECURSIVE ResumeTasks(_, _, _, _)
ResumeTasks(t, ts, w, p) ==
  IF t \notin DOMAIN ts THEN [ts |-> ts, w |-> w]
  ELSE IF ts[t].pc # "await" THEN ResumeTasks(t + 1, ts, w, p)
  ELSE LET r == TaskFinish(ts[t], p, w) IN
         ResumeTasks(t + 1, [ts EXCEPT ![t] = r.t], r.w, p)

\* lines 75-98: the response to the proactive POST /auth/refresh arrives
ActivityRefreshResponse(kind) ==
  /\ refreshPromise.st = "pending"
  /\ LET p == activitySettle(refreshPromise, kind, now)
         w == [World EXCEPT !.token = setAccessToken(@, p.tok)]
         r == ResumeTasks(1, tasks, w, p)
     IN
       /\ refreshPromise' = p
       /\ tasks' = r.ts
       /\ SetWorld(r.w)
  /\ UNCHANGED <<lastStoreOp, hasSessionTimeout, hasConfirmModal, window__authRefreshing,
                 refreshInFlight, clicks, now, lastActivityAt,
                 lastRefreshAttemptAt, activityTimer, calls>>

\* line 96: setTimeout(() => (refreshPromise = null), 250)
ReleaseRefreshPromise ==
  /\ refreshPromise.st \in {"true", "false"}
  /\ refreshPromise' = NoPromise(refreshPromise.gen)
  /\ UNCHANGED <<lastStoreOp, hasSessionTimeout, hasConfirmModal, window__authRefreshing, token,
                 refreshInFlight, handlingAuthFailure, modalOpen, modal, logouts,
                 redirects, clicks, now, lastActivityAt, lastRefreshAttemptAt,
                 activityTimer, calls, tasks>>

\* lines 134-144: an interaction event arms the debounce timer
DebouncedActivity ==
  /\ ~activityTimer
  /\ activityTimer' = TRUE
  /\ UNCHANGED <<lastStoreOp, hasSessionTimeout, hasConfirmModal, window__authRefreshing, token,
                 refreshInFlight, handlingAuthFailure, modalOpen, modal, logouts,
                 redirects, clicks, now, lastActivityAt, lastRefreshAttemptAt,
                 refreshPromise, calls, tasks>>

\* lines 136-139: the debounce timer fires; lines 147-149: the tab is visible again
MarkActivity ==
  /\ activityTimer' = FALSE
  /\ lastActivityAt' = now
  /\ lastActivityAt # now \/ activityTimer
  /\ UNCHANGED <<lastStoreOp, hasSessionTimeout, hasConfirmModal, window__authRefreshing, token,
                 refreshInFlight, handlingAuthFailure, modalOpen, modal, logouts,
                 redirects, clicks, now, lastRefreshAttemptAt,
                 refreshPromise, calls, tasks>>

\* the clock moves on
Advance ==
  /\ now + MIN_REFRESH_GAP_MS <= T0 + MaxAdvances * MIN_REFRESH_GAP_MS
  /\ now' = now + MIN_REFRESH_GAP_MS
  /\ UNCHANGED <<lastStoreOp, hasSessionTimeout, hasConfirmModal, window__authRefreshing, token,
                 refreshInFlight, handlingAuthFailure, modalOpen, modal, logouts,
                 redirects, clicks, lastActivityAt, lastRefreshAttemptAt,
                 refreshPromise, activityTimer, calls, tasks>>

\* the coarse step of the clock: the idle ceiling
TickMs == MAX_IDLE_MS

\* the clock moves on by d ms, up to the idle ceiling and MaxOvershoot more;
\* single milliseconds are followed right after a whole tick only
Tick(d) ==
  /\ now + d <= T0 + MAX_IDLE_MS + MaxOvershoot
  /\ d < TickMs => ((now - T0) % TickMs) + d <= MaxOvershoot
  /\ now' = now + d
  /\ UNCHANGED <<lastStoreOp, hasSessionTimeout, hasConfirmModal, window__authRefreshing, token,
                 refreshInFlight, handlingAuthFailure, modalOpen, modal, logouts,
                 redirects, clicks, lastActivityAt, lastRefreshAttemptAt,
                 refreshPromise, activityTimer, calls, tasks>>

\* ----------------------------------------------------------- specification
InitTokens == {NoToken, Jwt((T0 \div 1000) + 10)}

Bodies == {Body("denied", "no access", "")}

Init ==
  /\ hasSessionTimeout \in BOOLEAN
  /\ hasConfirmModal \in (IF hasSessionTimeout THEN BOOLEAN ELSE {FALSE})
  /\ window__authRefreshing = FALSE
  /\ token \in InitTokens
  /\ refreshInFlight = NoPromise(0)
  /\ handlingAuthFailure = FALSE
  /\ modalOpen = FALSE
  /\ modal = NoModal
  /\ logouts = [k \in LogoutKinds |-> 0]
  /\ redirects = <<>>
  /\ clicks = <<>>
  /\ now = T0
  /\ lastActivityAt = T0
  /\ lastRefreshAttemptAt = 0
  /\ refreshPromise = NoPromise(0)
  /\ activityTimer = FALSE
  /\ calls = [c \in Calls |-> NoCall]
  /\ tasks = [t \in 1..NumTasks |-> NoTask]
  /\ lastStoreOp = NoStoreOp

MainUrls == {ApiUrl, StaticUrl}

Next ==
  \/ \E c \in Calls, u \in MainUrls : AuthFetchStart(c, u)
  \/ \E c \in Calls, s \in Statuses, b \in Bodies : AuthFetchFirstResponse(c, s, b)
  \/ \E c \in Calls : AuthFetchForbidden(c)
  \/ \E k \in RenewalKinds : RefreshResponse(k)
  \/ ClearRefreshInFlight
  \/ \E c \in Calls, s \in Statuses \cup {"neterr"}, b \in Bodies :
       AuthFetchRetryResponse(c, s, b)
  \/ \E c \in Calls : AuthFetchRetryForbidden(c)
  \/ ClickOk
  \/ ClickNo
  \/ \E k \in LogoutKinds : LogoutDone(k)
  \/ \E t \in 1..NumTasks, k \in TaskKinds : TaskStart(t, k)
  \/ \E k \in RenewalKinds : ActivityRefreshResponse(k)
  \/ ReleaseRefreshPromise

Spec == Init /\ [][Next]_vars

\* authFetch alone, over the targets shouldAttachAuth and isSkippablePath
\* tell apart, and over more statuses
UrlTargets ==
  {ApiUrl, LoginUrl, CrossUrl,
   Url(TRUE, <<"static", "data">>, ""),
   Url(TRUE, <<"favicon">>, ""),
   Url(TRUE, <<"api", "report">>, "css")}

UrlStatuses == Statuses \cup {"500"}

NextUrl ==
  \/ \E c \in Calls, u \in UrlTargets : AuthFetchStart(c, u)
  \/ \E c \in Calls, s \in UrlStatuses, b \in Bodies : AuthFetchFirstResponse(c, s, b)
  \/ \E c \in Calls : AuthFetchForbidden(c)
  \/ \E k \in RenewalKinds : RefreshResponse(k)
  \/ ClearRefreshInFlight
  \/ \E c \in Calls, s \in UrlStatuses, b \in Bodies : AuthFetchRetryResponse(c, s, b)
  \/ \E c \in Calls : AuthFetchRetryForbidden(c)

SpecUrl == Init /\ [][NextUrl]_vars

\* the setTimeout(0) callback of refreshOnce runs once it is due
SpecUrlLive == SpecUrl /\ WF_vars(ClearRefreshInFlight)

\* The ActivityMonitor alone, with the clock running, over stored
\* credentials of every shape getJwtExpSeconds tells apart: remaining
\* lifetimes around the skew window, and strings it cannot decode.
ClockTokens ==
  {NoToken}
  \cup {Jwt((T0 \div 1000) + r) : r \in {10, SKEW_SECONDS, SKEW_SECONDS + 1, 3600}}
  \cup {Jwt((T0 \div 1000) - 5)}
  \cup {[present |-> TRUE, segs |-> 1, payload |-> "none", expnum |-> FALSE, exp |-> 0],
        [present |-> TRUE, segs |-> 3, payload |-> "garbage", expnum |-> FALSE, exp |-> 0],
        [present |-> TRUE, segs |-> 3, payload |-> "obj", expnum |-> FALSE, exp |-> 0],
        [present |-> TRUE, segs |-> 3, payload |-> "obj", expnum |-> TRUE, exp |-> 0],
        [present |-> TRUE, segs |-> 2, payload |-> "obj", expnum |-> TRUE,
         exp |-> (T0 \div 1000) + 3600]}

InitClock ==
  /\ hasSessionTimeout \in BOOLEAN
  /\ hasConfirmModal \in (IF hasSessionTimeout THEN BOOLEAN ELSE {FALSE})
  /\ window__authRefreshing = FALSE
  /\ token \in ClockTokens
  /\ refreshInFlight = NoPromise(0)
  /\ handlingAuthFailure = FALSE
  /\ modalOpen = FALSE
  /\ modal = NoModal
  /\ logouts = [k \in LogoutKinds |-> 0]
  /\ redirects = <<>>
  /\ clicks = <<>>
  /\ now = T0
  /\ lastActivityAt = T0
  /\ lastRefreshAttemptAt = 0
  /\ refreshPromise = NoPromise(0)
  /\ activityTimer = FALSE
  /\ calls = [c \in Calls |-> NoCall]
  /\ tasks = [t \in 1..NumTasks |-> NoTask]
  /\ lastStoreOp = NoStoreOp

NextClock ==
  \/ \E t \in 1..NumTasks, k \in TaskKinds : TaskStart(t, k)
  \/ \E k \in RenewalKinds : ActivityRefreshResponse(k)
  \/ ReleaseRefreshPromise
  \/ DebouncedActivity
  \/ MarkActivity
  \/ Advance
  \/ \E d \in {1, TickMs} : Tick(d)

SpecClock == InitClock /\ [][NextClock]_vars

\* The ActivityMonitor alone, over several handler runs in one page life: a
\* credential that is due at page load, and one that becomes due later.
NavTokens == {Jwt((T0 \div 1000) + 10), Jwt((T0 \div 1000) + SKEW_SECONDS + 1)}

InitNav ==
  /\ hasSessionTimeout \in BOOLEAN
  /\ hasConfirmModal \in (IF hasSessionTimeout THEN BOOLEAN ELSE {FALSE})
  /\ window__authRefreshing = FALSE
  /\ token \in NavTokens
  /\ refreshInFlight = NoPromise(0)
  /\ handlingAuthFailure = FALSE
  /\ modalOpen = FALSE
  /\ modal = NoModal
  /\ logouts = [k \in LogoutKinds |-> 0]
  /\ redirects = <<>>
  /\ clicks = <<>>
  /\ now = T0
  /\ lastActivityAt = T0
  /\ lastRefreshAttemptAt = 0
  /\ refreshPromise = NoPromise(0)
  /\ activityTimer = FALSE
  /\ calls = [c \in Calls |-> NoCall]
  /\ tasks = [t \in 1..NumNavTasks |-> NoTask]
  /\ lastStoreOp = NoStoreOp

NextNav ==
  \/ \E t \in 1..NumNavTasks, k \in TaskKinds : TaskStart(t, k)
  \/ \E k \in RenewalKinds : ActivityRefreshResponse(k)
  \/ ReleaseRefreshPromise
  \/ \E k \in LogoutKinds : LogoutDone(k)
  \/ Advance

SpecNav == InitNav /\ [][NextNav]_vars

\* fetch("/auth/refresh") settles: the browser answers or fails every request
SpecNavLive == SpecNav /\ WF_vars(\E k \in RenewalKinds : ActivityRefreshResponse(k))

\* TokenStore alone, called with strings of every shape, the empty one included
StoreInputs == ClockTokens \cup {ServerToken(T0)}

NextStore ==
  \/ \E t \in StoreInputs : StoreSet(t)
  \/ StoreGet
  \/ StoreClear

SpecStore == Init /\ [][NextStore]_vars

\* ------------------------------------------------------------------ claims
Eligible(u) == shouldAttachAuth(u) /\ ~isSkippablePath(u)

FailureKinds == {"okNoToken", "non2xx", "neterr"}

\* calls to /auth/refresh that have not been answered yet
Outstanding ==
  (IF refreshInFlight.st = "pending" THEN 1 ELSE 0)
  + (IF refreshPromise.st = "pending" THEN 1 ELSE 0)

\* the step in which call c receives a 401 as its first response
Gets401(c) == calls[c].pc = "first" /\ calls'[c].st1 = "401"

\* C1: in every reachable state at most one call to /auth/refresh is
\* outstanding, counting the calls of refreshOnce (authFetch) and of
\* refreshAccessTokenOnce (heartbeat, navigation, submit) together.
C1_SystemWideSingleFlight == Outstanding <= 1

\* C2: a refreshOnce() call made while a renewal is pending starts no call to
\* /auth/refresh, each renewal generation was started by exactly one caller,
\* and all callers of one generation observe the same outcome (the same
\* credential, or all a rejection).
C2_RefreshOnceSingleFlight ==
  /\ \A c \in Calls : calls[c].pendingAtInvoke => ~calls[c].startedNet
  /\ \A g \in 1..refreshInFlight.gen :
       Cardinality({c \in Calls : calls[c].gen = g /\ calls[c].startedNet}) = 1
  /\ \A c, d \in Calls :
       (calls[c].gen = calls[d].gen /\ calls[c].rout # "none" /\ calls[d].rout # "none")
         => (calls[c].rout = calls[d].rout /\ calls[c].rtok = calls[d].rtok
             /\ calls[c].rkind = calls[d].rkind)

C2_Witness ==
  \E c, d \in Calls :
    /\ c # d
    /\ calls[c].startedNet /\ calls[d].pendingAtInvoke
    /\ calls[c].gen = calls[d].gen
    /\ calls[c].rout = "ok" /\ calls[d].rout = "ok"
    /\ refreshInFlight.gen = 1

\* C3: while a decision is open or a fallback redirect is pending, every
\* further expired()/forbidden() trigger, from authFetch or from the
\* ActivityMonitor, opens no modal, starts no fallback and issues no redirect.
C3_OneSurfaceAtATime ==
  /\ \A c \in Calls :
       (calls[c].esc # "none" /\ calls[c].surfaceBefore) => ~calls[c].opened
  /\ \A t \in Tasks :
       (tasks[t].esc # "none" /\ tasks[t].surfaceBefore) => ~tasks[t].opened

\* a forbidden decision was acknowledged, the page was not navigated, and no
\* surface is up
AcknowledgedIdle ==
  /\ \E i \in 1..Len(clicks) : clicks[i] = [button |-> "ok", kind |-> "forbidden"]
  /\ redirects = <<>>
  /\ ~SurfaceActive(World)
  /\ ~modalOpen

\* C4: after a forbidden decision was acknowledged (modal closed, page not
\* navigated), an unrecoverable failure detected by authFetch presents a new
\* decision: the step in which the call escalates opens a surface.
C4_IdleAfterAcknowledge ==
  [][\A c \in Calls :
       (AcknowledgedIdle /\ calls[c].esc = "none" /\ calls'[c].esc # "none")
         => (modal'.kind # "none" \/ logouts' # logouts \/ redirects' # redirects)]_vars

C6_RetryEscalatesOnce ==
  \A c \in Calls :
    /\ (calls[c].pc = "done" /\ calls[c].rout = "ok" /\ calls[c].st2 = "401")
         => (calls[c].esc = "expired" /\ calls[c].ret = "retry")
    /\ (calls[c].pc = "done" /\ calls[c].st2 = "403" /\ ~isSkippablePath(calls[c].url))
         => (calls[c].esc = "forbidden" /\ calls[c].ret = "retry")
    /\ (calls[c].esc # "none" /\ calls[c].surfaceBefore) => ~calls[c].opened

C6_Witness ==
  \E c, d \in Calls :
    /\ c # d
    /\ calls[c].st2 = "401" /\ calls[c].esc = "expired" /\ calls[c].opened
    /\ calls[d].st1 = "401" /\ calls[d].esc = "expired"
    /\ calls[d].surfaceBefore /\ ~calls[d].opened

\* C7: every renewal failure (non-2xx, 2xx without access_token, network
\* failure) makes the path that awaited it invoke the session-expired
\* escalation: authFetch, and heartbeat / navigation / submit.
C7_RenewalFailureEscalates ==
  /\ \A c \in Calls : calls[c].rkind \in FailureKinds => calls[c].esc = "expired"
  /\ \A t \in Tasks : tasks[t].rkind \in FailureKinds => tasks[t].esc = "expired"

\* C8: when refreshOnce() rejects inside authFetch, the call has sent no
\* retry, has invoked the session-expired escalation and has resolved with
\* the original 401 response.
C8_RenewalFailureReturnsOriginal ==
  \A c \in Calls :
    calls[c].rout = "fail"
      => /\ calls[c].pc = "done" /\ calls[c].ret = "first" /\ calls[c].st1 = "401"
         /\ calls[c].sent = 1 /\ calls[c].st2 = "none"
         /\ calls[c].esc = "expired"

C8_Witness ==
  \E c \in Calls : calls[c].rout = "fail" /\ calls[c].pc = "done" /\ calls[c].opened

\* C9: a 401 on an eligible, non-skippable request while TokenStore is empty
\* invokes the session-expired escalation in the same step, calls no renewal,
\* sends no retry and returns the 401 response.
C9_EmptyStoreEscalates ==
  [][\A c \in Calls :
       (Gets401(c) /\ Eligible(calls[c].url) /\ ~token.present)
         => /\ calls'[c].pc = "done" /\ calls'[c].ret = "first"
            /\ calls'[c].esc = "expired"
            /\ calls'[c].nref = 0 /\ calls'[c].sent = 1
            /\ refreshInFlight' = refreshInFlight
            /\ refreshPromise' = refreshPromise]_vars

C9_Witness ==
  \E c \in Calls :
    /\ calls[c].pc = "done" /\ calls[c].st1 = "401" /\ calls[c].nref = 0
    /\ Eligible(calls[c].url) /\ calls[c].esc = "expired" /\ calls[c].opened

\* C10: a 401 that arrives in authFetch while a proactive renewal of the
\* ActivityMonitor is in flight starts no second renewal call and is returned
\* without escalating.
C10_NoRenewalDuringProactive ==
  [][\A c \in Calls :
       (Gets401(c) /\ Eligible(calls[c].url) /\ refreshPromise.st = "pending")
         => /\ refreshInFlight' = refreshInFlight
            /\ calls'[c].pc = "done" /\ calls'[c].ret = "first"
            /\ calls'[c].esc = "none"]_vars

\* the step in which call c receives a 403, as first response or on the retry
Gets403(c) ==
  \/ calls[c].pc = "first" /\ calls'[c].st1 = "403"
  \/ calls[c].pc = "retry" /\ calls'[c].st2 = "403"

\* C11: a 403 never causes a call to the renewal endpoint: a call whose first
\* response is 403 has invoked no refreshOnce() and sent no retry, and returns
\* that response, skippable path or not; a 403 on the retry is followed by no
\* further refreshOnce() and no third request; the step that receives a 403,
\* and the step that handles its body, leave refreshInFlight as it was.
C11_ForbiddenNeverRenews ==
  /\ [](\A c \in Calls :
          /\ calls[c].st1 = "403"
               => /\ calls[c].nref = 0 /\ calls[c].sent = 1 /\ calls[c].st2 = "none"
                  /\ calls[c].pc \in {"body403", "done"}
                  /\ (calls[c].pc = "done" => calls[c].ret = "first")
          /\ calls[c].st2 = "403"
               => /\ calls[c].nref = 1 /\ calls[c].sent = 2
                  /\ calls[c].pc \in {"rbody403", "done"}
                  /\ (calls[c].pc = "done" => calls[c].ret = "retry"))
  /\ [][\A c \in Calls :
          (Gets403(c) \/ calls[c].pc \in {"body403", "rbody403"})
            => (calls'[c] # calls[c] => refreshInFlight' = refreshInFlight)]_vars

C11_Witness ==
  \E c, d \in Calls :
    /\ calls[c].pc = "done" /\ calls[c].st1 = "403" /\ calls[c].esc = "forbidden"
    /\ calls[d].pc = "done" /\ calls[d].st2 = "403"

\* the field priority the claim states: detail, error_details, message
ClaimedDetail(b) ==
  IF ~b.json THEN "Forbidden"
  ELSE IF b.detail # "" THEN b.detail
  ELSE IF b.error_details # "" THEN b.error_details
  ELSE IF b.message # "" THEN b.message
  ELSE "Forbidden"

\* C12: the detail the forbidden escalation presents is chosen from the 403
\* body by the priority detail, then error_details, then message, then the
\* string "Forbidden": the step in which a call hands its 403 body to
\* forbidden() and the modal opens shows that value.
C12_DetailPriority ==
  [][\A c \in Calls :
       (/\ calls[c].pc \in {"body403", "rbody403"}
        /\ calls'[c].esc = "forbidden"
        /\ modal.kind = "none" /\ modal'.kind = "forbidden")
         => modal'.detail = ClaimedDetail(calls[c].body)]_vars

\* C15: by the time the session-expired decision is presented (the modal
\* shows it), TokenStore has been cleared and a logout call has been issued.
C15_ClearedBeforeDecision ==
  modal.kind = "expired"
    => (~token.present /\ \E k \in LogoutKinds : logouts[k] > 0)

\* the redirects that end a session-expired episode
ExpiredRedirects == {"ok", "no", "fbToken", "fbModal", "activity"}

\* a logout call is in flight, or one has settled and issued its redirect
LogoutIssued ==
  \/ \E k \in LogoutKinds : logouts[k] > 0
  \/ \E i \in 1..Len(redirects) : redirects[i].by \in LogoutKinds

\* C16: in the step that issues the redirect ending a session-expired episode
\* (Login or Home chosen, or a fallback redirect, from authFetch or from the
\* ActivityMonitor), TokenStore is empty and a logout call has been issued.
C16_RedirectAfterClearAndLogout ==
  [][(/\ Len(redirects') > Len(redirects)
      /\ redirects'[Len(redirects')].by \in ExpiredRedirects)
       => (~token'.present /\ LogoutIssued')]_vars

\* C17: a click on a button of the forbidden decision leaves TokenStore as
\* it was and issues no logout call; acknowledge closes the decision without
\* navigating, the alternate action navigates to "/".
C17_ForbiddenKeepsSession ==
  [][(clicks' # clicks /\ modal.kind = "forbidden")
       => /\ token' = token
          /\ logouts' = logouts
          /\ modal' = NoModal /\ ~modalOpen'
          /\ (clicks'[Len(clicks')].button = "ok" => redirects' = redirects)
          /\ (clicks'[Len(clicks')].button = "no"
                => /\ Len(redirects') = Len(redirects) + 1
                   /\ redirects'[Len(redirects')].to = "/")]_vars

C17_Witness ==
  /\ token.present
  /\ \E i \in 1..Len(clicks) : clicks[i] = [button |-> "no", kind |-> "forbidden"]
  /\ \E i \in 1..Len(redirects) :
       redirects[i] = [to |-> "/", by |-> "forbiddenNo", tokenEmpty |-> FALSE]

\* the skip list as the claim gives it: under /static/, starting with
\* /favicon, or ending in a stylesheet, script or image extension
ClaimSkippable(u) ==
  \/ (Len(u.path) >= 2 /\ u.path[1] = "static")
  \/ (Len(u.path) >= 1 /\ u.path[1] = "favicon")
  \/ u.ext \in {"css", "js", "png", "jpg", "jpeg", "webp", "avif", "ico"}

\* C13: an authFetch call to a skippable path has invoked no refreshOnce(),
\* has triggered no expired or forbidden escalation and has sent one request,
\* whatever the status; when it returns, it returns the first response.
C13_SkippableNeverEscalates ==
  \A c \in Calls :
    (calls[c].pc # "idle" /\ ClaimSkippable(calls[c].url))
      => /\ calls[c].nref = 0 /\ calls[c].esc = "none" /\ calls[c].sent = 1
         /\ calls[c].pc \in {"first", "done"}
         /\ (calls[c].pc = "done" => calls[c].ret = "first")

C13_Witness ==
  \E c, d \in Calls :
    /\ calls[c].url = Url(TRUE, <<"static", "data">>, "")
    /\ calls[c].pc = "done" /\ calls[c].st1 = "401" /\ calls[c].auth1
    /\ calls[d].url = Url(TRUE, <<"api", "report">>, "css")
    /\ calls[d].pc = "done" /\ calls[d].st1 = "403"
    /\ ~handlingAuthFailure

\* one of the four endpoints the claim names
ClaimAuthEndpoint(u) ==
  /\ u.ext = ""
  /\ u.path \in {<<"auth", "login">>, <<"auth", "register">>,
                  <<"auth", "refresh">>, <<"auth", "logout">>}

\* C14: an attempt of authFetch, first or retry, carries the stored
\* credential only if the target is same-origin and none of /auth/login,
\* /auth/register, /auth/refresh, /auth/logout; a retry is sent to such a
\* target only.
C14_AttachOnlyWhereEligible ==
  \A c \in Calls :
    /\ (calls[c].auth1 \/ calls[c].auth2)
         => (calls[c].url.sameOrigin /\ ~ClaimAuthEndpoint(calls[c].url))
    /\ calls[c].sent = 2
         => (calls[c].url.sameOrigin /\ ~ClaimAuthEndpoint(calls[c].url))

C14_Witness ==
  \E c, d \in Calls :
    /\ calls[c].url = CrossUrl /\ calls[c].pc = "done" /\ ~calls[c].auth1
    /\ calls[c].st1 = "401"
    /\ calls[d].url = ApiUrl /\ calls[d].auth1 /\ calls[d].auth2
    /\ token.present

\* the step in which the heartbeat's interval callback runs in slot t
HeartbeatTick(t) ==
  tasks[t].pc = "idle" /\ tasks'[t].pc # "idle" /\ tasks'[t].kind = "heartbeat"

\* C18: a heartbeat tick at which now - lastActivityAt is greater than the
\* idle ceiling starts no renewal call and escalates nothing; a tick at which
\* the gap is at most the ceiling (equal included) is not idle: with a
\* renewal due, the throttle passed and no renewal kept, it starts one.
C18_HeartbeatIdleBoundary ==
  [][\A t \in Tasks : HeartbeatTick(t) =>
       /\ now - lastActivityAt > MAX_IDLE_MS
            => /\ refreshPromise' = refreshPromise
               /\ lastRefreshAttemptAt' = lastRefreshAttemptAt
               /\ tasks'[t].pc = "done" /\ tasks'[t].esc = "none"
               /\ UNCHANGED <<token, handlingAuthFailure, modalOpen, modal,
                              logouts, redirects>>
       /\ (/\ now - lastActivityAt <= MAX_IDLE_MS
           /\ now - lastRefreshAttemptAt >= MIN_REFRESH_GAP_MS
           /\ needsRefreshSoon
           /\ refreshPromise.st = "none")
            => (refreshPromise'.st = "pending" /\ tasks'[t].pc = "await")]_vars

C18_Witness ==
  \E t \in Tasks :
    /\ tasks[t].kind = "heartbeat" /\ tasks[t].pc = "await"
    /\ tasks[t].joined = "started"
    /\ now - lastActivityAt = MAX_IDLE_MS
    /\ lastRefreshAttemptAt = now

\* a credential of three segments whose middle one decodes to an object with
\* a numeric exp
ClaimDecodable(t) ==
  t.present /\ t.segs = 3 /\ t.payload = "obj" /\ t.expnum

\* expiry minus the current epoch seconds
Remaining(t) == t.exp - (now \div 1000)

\* the step in which a click on a protected link or a submit of a protected
\* form is intercepted in slot t
Intercepted(t) ==
  tasks[t].pc = "idle" /\ tasks'[t].pc # "idle" /\ tasks'[t].kind # "heartbeat"

\* C19: with a decodable credential stored, renewal is judged due exactly
\* when its remaining lifetime is at most the skew window (10 s, 30 s and an
\* expired one are due, 31 s and 3600 s are not); a click or submit of an
\* active user is held back exactly then.
C19_DueWithinSkew ==
  /\ [](ClaimDecodable(token)
          => (needsRefreshSoon <=> Remaining(token) <= SKEW_SECONDS))
  /\ [][\A t \in Tasks :
          (Intercepted(t) /\ ClaimDecodable(token)
             /\ now - lastActivityAt <= MAX_IDLE_MS)
            => (tasks'[t].prevented <=> Remaining(token) <= SKEW_SECONDS)]_vars

C19_Witness ==
  /\ ClaimDecodable(token) /\ Remaining(token) = SKEW_SECONDS
  /\ \E t \in Tasks :
       tasks[t].kind = "nav" /\ tasks[t].pc = "await" /\ tasks[t].prevented

\* C20: a stored credential whose expiry cannot be decoded (not three
\* segments, invalid base64 / JSON, expiry missing or not a number) is judged
\* due; an empty TokenStore is judged not due.
C20_UndecodableIsDue ==
  /\ (token.present /\ ~ClaimDecodable(token)) => needsRefreshSoon
  /\ ~token.present => ~needsRefreshSoon

\* no expiry can be read from the second segment of the credential
NoExpiryReadable(t) ==
  t.present /\ (t.segs < 2 \/ t.payload # "obj" \/ ~t.expnum)

\* the step in which an ActivityMonitor handler starts in slot t
HandlerStarts(t) == tasks[t].pc = "idle" /\ tasks'[t].pc # "idle"

\* C20, amended: a stored credential from whose second segment no expiry can
\* be read (fewer than two segments, invalid base64 / JSON, expiry missing or
\* not a number) is judged due; an empty TokenStore is judged not due, and a
\* handler that runs then starts no renewal call and holds nothing back.
C20_NoExpiryReadableIsDue ==
  /\ [](/\ NoExpiryReadable(token) => needsRefreshSoon
        /\ ~token.present => ~needsRefreshSoon)
  /\ [][\A t \in Tasks :
          (HandlerStarts(t) /\ ~token.present)
            => /\ refreshPromise' = refreshPromise
               /\ lastRefreshAttemptAt' = lastRefreshAttemptAt
               /\ tasks'[t].pc = "done" /\ ~tasks'[t].prevented]_vars

C20_Witness ==
  /\ token.present /\ token.segs = 3 /\ token.payload = "garbage"
  /\ \E t \in Tasks :
       tasks[t].kind = "heartbeat" /\ tasks[t].pc = "await"
       /\ tasks[t].joined = "started"

\* the step sends a call to /auth/refresh, from refreshOnce (authFetch) or
\* from refreshAccessTokenOnce (heartbeat, navigation, submit)
StartsRenewal ==
  \/ refreshInFlight'.gen > refreshInFlight.gen
  \/ refreshPromise'.gen > refreshPromise.gen

\* calls to /auth/refresh sent since page load, by either path
RenewalsStarted == refreshInFlight.gen + refreshPromise.gen

\* C21: any two calls to /auth/refresh start at least MIN_REFRESH_GAP_MS
\* apart, whichever path starts them.  No call starts before page load (T0),
\* so a call that starts after an earlier one starts at T0 + gap or later.
C21_RenewalsGapApart ==
  [][(StartsRenewal /\ RenewalsStarted > 0)
       => now' - T0 >= MIN_REFRESH_GAP_MS]_vars

\* C22: an intercepted click or submit whose default action was suppressed is
\* carried out by the handler only if the handler awaited a renewal and that
\* renewal succeeded: never with no renewal awaited, never after a failed one.
C22_ProceedOnlyAfterRenewal ==
  \A t \in Tasks :
    (tasks[t].kind # "heartbeat" /\ tasks[t].prevented)
      => /\ tasks[t].performed = "script"
              => (tasks[t].joined # "none" /\ tasks[t].ok = "true")
         /\ tasks[t].ok = "false" => tasks[t].performed = "no"

\* the stored credential decodes and expires later than the skew window
NotCloseToExpiry == ClaimDecodable(token) /\ Remaining(token) > SKEW_SECONDS

\* the last interaction is longer ago than the idle ceiling
UserIdle == now - lastActivityAt > MAX_IDLE_MS

\* C23: a click on a protected link or a submit of a protected form that is
\* intercepted while the credential is not close to expiry, or while the user
\* is idle, is not suppressed (the default action goes on), starts no renewal
\* call, and leaves lastRefreshAttemptAt, TokenStore and the escalation state
\* as they were.
C23_InterceptionWithoutCost ==
  [][\A t \in Tasks :
       (Intercepted(t) /\ (NotCloseToExpiry \/ UserIdle))
         => /\ ~tasks'[t].prevented /\ tasks'[t].performed = "default"
            /\ tasks'[t].pc = "done" /\ tasks'[t].esc = "none"
            /\ refreshPromise' = refreshPromise
            /\ refreshInFlight' = refreshInFlight
            /\ UNCHANGED <<lastRefreshAttemptAt, token, handlingAuthFailure,
                           modalOpen, modal, logouts, redirects>>]_vars

C23_Witness ==
  /\ UserIdle /\ needsRefreshSoon
  /\ now - lastRefreshAttemptAt >= MIN_REFRESH_GAP_MS
  /\ \E t \in Tasks :
       /\ tasks[t].kind = "submit" /\ tasks[t].pc = "done"
       /\ tasks[t].performed = "default" /\ ~tasks[t].prevented

\* the stored credential decodes and its expiry lies in the past
ExpiredStored == ClaimDecodable(token) /\ Remaining(token) < 0

\* the step in which the call the handler in slot t started is answered
\* with a new credential
RenewalSucceeds(t) ==
  /\ tasks[t].pc = "await" /\ tasks[t].joined = "started"
  /\ refreshPromise.st = "pending" /\ refreshPromise'.kind = "okToken"

\* C24 (scenario A): with a stored credential whose expiry is in the past, no
\* renewal attempted yet and the user active, a heartbeat tick starts exactly
\* one call to /auth/refresh; in the step in which that call succeeds
\* TokenStore takes the credential of the response and nothing escalates.
C24_ScenarioA ==
  [][\A t \in Tasks :
       /\ (/\ HeartbeatTick(t) /\ ExpiredStored
           /\ lastRefreshAttemptAt = 0 /\ refreshPromise = NoPromise(0)
           /\ now - lastActivityAt <= MAX_IDLE_MS)
            => /\ refreshPromise'.st = "pending" /\ refreshPromise'.gen = 1
               /\ tasks'[t].pc = "await" /\ tasks'[t].joined = "started"
               /\ lastRefreshAttemptAt' = now
               /\ token' = token
       /\ (RenewalSucceeds(t) /\ tasks[t].kind = "heartbeat")
            => /\ token' = refreshPromise'.tok /\ token' = ServerToken(now)
               /\ refreshPromise'.gen = refreshPromise.gen
               /\ tasks'[t].pc = "done" /\ tasks'[t].ok = "true"
               /\ tasks'[t].esc = "none"
               /\ UNCHANGED <<handlingAuthFailure, modalOpen, modal, logouts>>
               /\ \A i \in (Len(redirects) + 1)..Len(redirects') :
                    redirects'[i].by \in {"nav", "submit"}]_vars

C24_Witness ==
  /\ ExpiredStored /\ now - lastActivityAt <= MAX_IDLE_MS
  /\ refreshPromise.st = "pending" /\ refreshPromise.gen = 1
  /\ lastRefreshAttemptAt = now
  /\ \E t \in Tasks :
       /\ tasks[t].kind = "heartbeat" /\ tasks[t].pc = "await"
       /\ tasks[t].joined = "started"

\* refreshOnce()'s promise has settled and is still kept
Settled == refreshInFlight.st \in {"ok", "fail"}

\* C25: after a renewal settles, by success or by failure, refreshInFlight is
\* eventually reset to null; a refreshOnce() call made when it is null starts
\* a new call to /auth/refresh, and one made after the settlement but before
\* the reset starts none and gets the settled outcome (the same credential,
\* or the same rejection).
C25_MarkerCleared ==
  /\ Settled ~> (refreshInFlight.st = "none")
  /\ [][\A c \in Calls :
          (Gets401(c) /\ Eligible(calls[c].url) /\ token.present)
            => /\ refreshInFlight.st = "none"
                    => /\ refreshInFlight'.st = "pending"
                       /\ refreshInFlight'.gen = refreshInFlight.gen + 1
                       /\ calls'[c].startedNet /\ calls'[c].pc = "refresh"
               /\ Settled
                    => /\ refreshInFlight' = refreshInFlight
                       /\ ~calls'[c].startedNet
                       /\ calls'[c].rout = refreshInFlight.st
                       /\ calls'[c].rkind = refreshInFlight.kind
                       /\ calls'[c].rtok = refreshInFlight.tok]_vars

C25_Witness ==
  /\ refreshInFlight = NoPromise(2)
  /\ \E c, d \in Calls :
       /\ calls[c].startedNet /\ calls[c].gen = 1 /\ calls[c].rout = "fail"
       /\ calls[d].startedNet /\ calls[d].gen = 2 /\ calls[d].rout = "ok"

\* C26: TokenStore accepts any string: a get() that follows set(t) returns t,
\* for the empty string too, and a get() that follows clear() returns empty.
C26_StoreAcceptsAnyString ==
  [][(lastStoreOp'.op = "get" /\ lastStoreOp.op \in {"set", "clear"})
       => lastStoreOp'.ret = lastStoreOp.arg]_vars

\* a target no credential is attached to: cross-origin, or an auth endpoint
ClaimNoCredentialUrl(u) == ~u.sameOrigin \/ ClaimAuthEndpoint(u)

\* the first response is one authFetch does not interpret
PassedThrough(cr) ==
  \/ cr.st1 \notin {"none", "401", "403"}
  \/ cr.st1 = "401" /\ ClaimNoCredentialUrl(cr.url)

\* C27: for a first response with a status other than 401 and 403, and for
\* a 401 from a target no credential is attached to, authFetch has sent one
\* request, returns that response, has invoked no refreshOnce() and no
\* escalation; the step that receives it leaves TokenStore, refreshInFlight
\* and the escalation state as they were.
C27_OtherStatusPassesThrough ==
  /\ [](\A c \in Calls :
          PassedThrough(calls[c])
            => /\ calls[c].pc = "done" /\ calls[c].ret = "first"
               /\ calls[c].sent = 1 /\ calls[c].st2 = "none"
               /\ calls[c].nref = 0 /\ calls[c].esc = "none")
  /\ [][\A c \in Calls :
          (calls[c].pc = "first" /\ PassedThrough(calls'[c]))
            => UNCHANGED <<token, refreshInFlight, refreshPromise,
                           handlingAuthFailure, modalOpen, modal, logouts,
                           redirects>>]_vars

C27_Witness ==
  /\ token.present /\ ~handlingAuthFailure
  /\ \E c, d \in Calls :
       /\ calls[c].url = ApiUrl /\ calls[c].auth1 /\ calls[c].st1 = "500"
       /\ calls[c].pc = "done"
       /\ calls[d].url = LoginUrl /\ calls[d].st1 = "401" /\ calls[d].pc = "done"

\* the step in which the retry of call c fails at the network level
RetryRejects(c) == calls[c].pc = "retry" /\ calls'[c].st2 = "neterr"

\* C28: when the renewal succeeded and the retry's fetch rejects, authFetch
\* does not reject: it invokes the session-expired escalation and resolves
\* with the original 401 response, and TokenStore then holds the renewed
\* credential.
C28_RetryRejectionKeepsCredential ==
  [][\A c \in Calls :
       RetryRejects(c)
         => /\ calls'[c].pc = "done" /\ calls'[c].ret = "first"
            /\ calls'[c].st1 = "401" /\ calls'[c].esc = "expired"
            /\ token'.present /\ token' = calls[c].rtok]_vars

\* the expired trigger is not absorbed and no modal can be shown: a fallback
\* of token.js or of session-timeout.js runs
ExpiredTakesFallback ==
  /\ ~handlingAuthFailure
  /\ ~hasSessionTimeout \/ (~modalOpen /\ ~hasConfirmModal)

\* C28, amended: when the renewal succeeded and the retry's fetch rejects,
\* authFetch does not reject: it invokes the session-expired escalation and
\* resolves with the original 401 response.  authFetch itself does not
\* discard the renewed credential: the step leaves TokenStore as it is,
\* except that an escalation that takes a no-modal fallback clears it.
C28_RetryRejectionEscalates ==
  [][\A c \in Calls :
       RetryRejects(c)
         => /\ calls'[c].pc = "done" /\ calls'[c].ret = "first"
            /\ calls'[c].st1 = "401" /\ calls'[c].esc = "expired"
            /\ calls'[c].rout = "ok" /\ calls'[c].sent = 2
            /\ token' = (IF ExpiredTakesFallback THEN NoToken ELSE token)]_vars

C28_Witness ==
  /\ token.present /\ modal.kind = "expired"
  /\ \E c \in Calls :
       /\ calls[c].st2 = "neterr" /\ calls[c].pc = "done" /\ calls[c].ret = "first"
       /\ calls[c].esc = "expired" /\ calls[c].opened /\ calls[c].rtok = token

\* the step in which call c hands its 403 to showForbiddenModalOnce, and the
\* trigger is not absorbed by handlingAuthFailure
ForbiddenTriggers(c) ==
  /\ calls[c].pc \in {"body403", "rbody403"} /\ calls'[c].esc = "forbidden"
  /\ ~handlingAuthFailure

\* C29: with SessionTimeout loaded but openConfirmModal missing, a forbidden
\* escalation takes the fallback an expired one takes: it clears TokenStore
\* and sends the logout call, and when that call settles it redirects to
\* /login.  With SessionTimeout missing, a forbidden escalation from
\* authFetch redirects to "/" and leaves TokenStore as it was.
C29_ForbiddenFallbacks ==
  [][/\ \A c \in Calls :
          (ForbiddenTriggers(c) /\ hasSessionTimeout /\ ~hasConfirmModal /\ ~modalOpen)
            => /\ token' = NoToken
               /\ logouts' = [logouts EXCEPT !["fbModal"] = @ + 1]
               /\ modal' = NoModal /\ redirects' = redirects
     /\ logouts'["fbModal"] < logouts["fbModal"]
          => /\ Len(redirects') = Len(redirects) + 1
             /\ redirects'[Len(redirects')].to = "/login"
     /\ \A c \in Calls :
          (ForbiddenTriggers(c) /\ ~hasSessionTimeout)
            => /\ token' = token /\ logouts' = logouts /\ modal' = NoModal
               /\ Len(redirects') = Len(redirects) + 1
               /\ redirects'[Len(redirects')].to = "/"]_vars

C29_Witness ==
  /\ hasSessionTimeout /\ ~hasConfirmModal /\ ~token.present
  /\ \E c \in Calls :
       /\ calls[c].esc = "forbidden" /\ calls[c].opened /\ calls[c].auth1
  /\ \E i \in 1..Len(redirects) :
       redirects[i].to = "/login" /\ redirects[i].by = "fbModal"

\* the user is on the escalation path: a decision is open, a fallback is on
\* its way to /login, or the redirect to /login has been issued
EscalationVisible ==
  \/ SurfaceActive(World)
  \/ \E i \in 1..Len(redirects) : redirects[i].to = "/login"

\* C30: provided the call to /auth/refresh settles, every interception that
\* suppressed the default action eventually ends, and ends with the
\* navigation / submission carried out by the handler or with an escalation
\* surface active; it is never dropped without either.
C30_SuppressedNeverDropped ==
  \A t \in 1..NumNavTasks :
    tasks[t].prevented
      ~> (/\ tasks[t].pc = "done"
          /\ tasks[t].performed = "script" \/ EscalationVisible)

C30_Witness ==
  /\ modal.kind = "expired" /\ redirects = <<>>
  /\ \E t \in Tasks :
       /\ tasks[t].kind = "nav" /\ tasks[t].prevented /\ tasks[t].pc = "done"
       /\ tasks[t].joined = "started" /\ tasks[t].ok = "false"
       /\ tasks[t].performed = "no" /\ tasks[t].opened

====
